---- MODULE Spec2Model ----
(***************************************************************************)
(* DuckDB-WASM todo list with OPFS persistence: the database module        *)
(* (src/src/database.ts, lines 1-553) and the engine calls it issues.      *)
(*                                                                         *)
(* The embedded engine is outside the repository.  What the model assumes  *)
(* of it is what the module's own comments state (lines 284, 316-317):     *)
(* a statement changes the engine's in-memory database at once, and only   *)
(* CHECKPOINT is guaranteed to carry that database into the durable file;  *)
(* on a page reload the writes that were never checkpointed may be lost.   *)
(* Every engine call may fail.                                             *)
(***************************************************************************)
EXTENDS Integers, Sequences, FiniteSets, TLC

VARIABLES
  disk,      \* the origin-private file system: durable file name -> database
  engine,    \* the engine worker: "none", "running" or "terminated"
  dbOpen,    \* the path the engine has open (NoPath when none)
  mem,       \* the database inside the engine (buffered, not yet durable)
  dbState,   \* the DatabaseState the caller holds: db and isOpfsSupported
  boot,      \* how the initializeDatabase call that has just settled went
  tasks,     \* the calls in flight or just settled, one per slot; conn is
             \* "open" from a successful connect() until conn.close() is called
  now,       \* the wall clock that CURRENT_TIMESTAMP reads
  ui         \* the page: appState.database, the disabled buttons, the
             \* checkboxes rendered, the event handler running in each slot

vars == <<disk, engine, dbOpen, mem, dbState, boot, tasks, now, ui>>

-----------------------------------------------------------------------------
(* Bounds of the model *)

MaxSeq == 2        \* ids the sequence may hand out in one durable file
MaxClock == 1      \* ticks of the wall clock
MaxTasks == 2      \* calls that may be in flight at once
MaxFaults == 2     \* engine calls that may fail within one bootstrap
MaxEvents == 4     \* user events the page handles in one session

Contents == {"x"}
\* The texts a caller of the store can pass: empty, with quotes, with a
\* control character.
QuotedText == "it's \"x\"; --"
Texts == {"", QuotedText, "a\tb"}
Slots == 1..MaxTasks

-----------------------------------------------------------------------------
(* Paths *)

OpfsScheme == "opfs://"
DefaultPath == <<OpfsScheme, "test.db">>
MemoryPath == <<"", ":memory:">>
NoPath == <<"", "">>
Undefined == <<>>

\* options.databasePath as the caller may give it
PathOptions == {Undefined, NoPath, DefaultPath, <<"", "plain.db">>}
DurableFiles == {DefaultPath}

\* dbPath.startsWith('opfs://')
startsWithOpfs(p) == Len(p) > 0 /\ p[1] = OpfsScheme

\* options.databasePath || 'opfs://test.db'
dbPathOf(opt) == IF opt \in {Undefined, NoPath} THEN DefaultPath ELSE opt

-----------------------------------------------------------------------------
(* The database: the todos table and the todos_id_seq sequence *)

EmptyDb == [hasTable |-> FALSE, hasSeq |-> FALSE, todos |-> {}, seq |-> 1]

\* CREATE TABLE IF NOT EXISTS todos (...)
CreateTable(db) == [db EXCEPT !.hasTable = TRUE]

\* CREATE OR REPLACE SEQUENCE todos_id_seq START 1
CreateOrReplaceSequence(db) == [db EXCEPT !.hasSeq = TRUE, !.seq = 1]

\* CREATE SEQUENCE IF NOT EXISTS todos_id_seq START 1
CreateSequence(db) ==
  IF db.hasSeq THEN db ELSE [db EXCEPT !.hasSeq = TRUE, !.seq = 1]

\* INSERT INTO todos (id, content) VALUES (nextval('todos_id_seq'), ?)
\* An INSERT that reads the sequence without advancing it.
InsertTodoNoAdvance(db, content, ts) ==
  [db EXCEPT
     !.todos = db.todos \cup
        {[id |-> db.seq, content |-> content, completed |-> FALSE,
          created_at |-> ts, updated_at |-> ts]}]

\* An INSERT that numbers the record one above the largest id present.
InsertTodoMaxPlusOne(db, content, ts) ==
  LET ids == {r.id : r \in db.todos}
      next == IF ids = {} THEN 1
              ELSE 1 + CHOOSE i \in ids : \A j \in ids : j <= i
  IN [db EXCEPT
        !.seq = next + 1,
        !.todos = db.todos \cup
           {[id |-> next, content |-> content, completed |-> FALSE,
             created_at |-> ts, updated_at |-> ts]}]

\* An INSERT built by string interpolation: the text ends at its first quote.
InsertTodoInterpolated(db, content, ts) ==
  [db EXCEPT
     !.seq = db.seq + 1,
     !.todos = db.todos \cup
        {[id |-> db.seq,
          content |-> IF content = QuotedText THEN "it" ELSE content,
          completed |-> FALSE, created_at |-> ts, updated_at |-> ts]}]

InsertTodo(db, content, ts) ==
  [db EXCEPT !.seq = db.seq + 1,
             !.todos = db.todos \cup
                {[id |-> db.seq, content |-> content, completed |-> FALSE,
                  created_at |-> ts, updated_at |-> ts]}]

\* An UPDATE that also sets created_at = CURRENT_TIMESTAMP.
ToggleTodoTouchingCreated(db, todoId, ts) ==
  [db EXCEPT !.todos =
     {IF r.id = todoId
        THEN [r EXCEPT !.completed = ~r.completed, !.updated_at = ts,
                       !.created_at = ts]
        ELSE r : r \in db.todos}]

\* An UPDATE that sets updated_at to the start of the epoch.
ToggleTodoResettingUpdated(db, todoId, ts) ==
  [db EXCEPT !.todos =
     {IF r.id = todoId
        THEN [r EXCEPT !.completed = ~r.completed, !.updated_at = -1]
        ELSE r : r \in db.todos}]

\* An upsert: a completed record is created when no record has the id.
ToggleTodoUpsert(db, todoId, ts) ==
  IF \E r \in db.todos : r.id = todoId
    THEN [db EXCEPT !.todos =
            {IF r.id = todoId
               THEN [r EXCEPT !.completed = ~r.completed, !.updated_at = ts]
               ELSE r : r \in db.todos}]
    ELSE [db EXCEPT !.todos =
            db.todos \cup {[id |-> todoId, content |-> "", completed |-> TRUE,
                            created_at |-> ts, updated_at |-> ts]}]

\* An UPDATE that sets completed = TRUE.
ToggleTodoSetTrue(db, todoId, ts) ==
  [db EXCEPT !.todos =
     {IF r.id = todoId
        THEN [r EXCEPT !.completed = TRUE, !.updated_at = ts]
        ELSE r : r \in db.todos}]

\* UPDATE todos SET completed = NOT completed, updated_at = CURRENT_TIMESTAMP WHERE id = ?
ToggleTodo(db, todoId, ts) ==
  [db EXCEPT !.todos =
     {IF r.id = todoId
        THEN [r EXCEPT !.completed = ~r.completed, !.updated_at = ts]
        ELSE r : r \in db.todos}]

\* A DELETE that removes the records that are not completed.
DeleteAllOpen(db) == [db EXCEPT !.todos = {r \in db.todos : r.completed}]

\* DELETE FROM todos
DeleteAll(db) == [db EXCEPT !.todos = {}]

\* SELECT COUNT(*) as count FROM todos
CountAll(db) == Cardinality(db.todos)

\* SELECT COUNT(*) as count FROM todos WHERE completed = TRUE
CountCompleted(db) == Cardinality({r \in db.todos : r.completed})

\* DELETE FROM todos WHERE completed = TRUE
DeleteCompleted(db) == [db EXCEPT !.todos = {r \in db.todos : ~r.completed}]

\* ORDER BY created_at ASC: oldest first.
IsAscending(s) ==
  \A i, j \in 1..Len(s) : i < j => s[i].created_at <= s[j].created_at

\* The orders SELECT * FROM todos ORDER BY created_at DESC may return:
\* newest first, rows of equal created_at in any order.
IsDescending(s) ==
  \A i, j \in 1..Len(s) : i < j => s[i].created_at >= s[j].created_at

\* A SELECT with LIMIT 1.
SelectOrdersLimitOne(db) ==
  IF db.todos = {} THEN {<<>>}
  ELSE {<<r>> : r \in {q \in db.todos :
                        \A o \in db.todos : q.created_at >= o.created_at}}

SelectOrders(db) ==
  LET n == Cardinality(db.todos)
  IN {s \in [1..n -> db.todos] :
        /\ \A r \in db.todos : \E i \in 1..n : s[i] = r
        /\ IsDescending(s)}

-----------------------------------------------------------------------------
(* The capability probe *)

\* 'navigator' in globalThis, 'storage' in navigator, 'getDirectory' in
\* navigator.storage: `in` is true of a property that is present with the
\* value undefined, and throws a TypeError when its right operand is undefined.
HostEnvs ==
  {[navigator |-> "absent", storage |-> "absent", getDirectory |-> "absent"],
   [navigator |-> "undefined", storage |-> "absent", getDirectory |-> "absent"],
   [navigator |-> "object", storage |-> "absent", getDirectory |-> "absent"],
   [navigator |-> "object", storage |-> "undefined", getDirectory |-> "absent"],
   [navigator |-> "object", storage |-> "object", getDirectory |-> "absent"],
   [navigator |-> "object", storage |-> "object", getDirectory |-> "undefined"],
   [navigator |-> "object", storage |-> "object", getDirectory |-> "function"]}

isOpfsSupported(h) ==
  LET hasNavigator == h.navigator # "absent"
  IN IF ~hasNavigator THEN "false"
     ELSE IF h.navigator = "undefined" THEN "throw"
     ELSE IF h.storage = "absent" THEN "false"
     ELSE IF h.storage = "undefined" THEN "throw"
     ELSE IF h.getDirectory = "absent" THEN "false"
     ELSE "true"

-----------------------------------------------------------------------------
(* The world as one record, so that whole calls compose as functions *)

World ==
  [disk |-> disk, engine |-> engine, dbOpen |-> dbOpen,
   mem |-> mem, dbState |-> dbState, boot |-> boot, tasks |-> tasks,
   now |-> now, ui |-> ui]

Becomes(w) ==
  /\ disk' = w.disk
  /\ engine' = w.engine
  /\ dbOpen' = w.dbOpen
  /\ mem' = w.mem
  /\ dbState' = w.dbState
  /\ boot' = w.boot
  /\ tasks' = w.tasks
  /\ now' = w.now
  /\ ui' = w.ui

NullState == [db |-> "null", isOpfsSupported |-> FALSE]
\* createInitialAppState(): no database yet, every button enabled, an empty
\* list, no handler running.
NoUi == [started |-> FALSE, database |-> FALSE, disabled |-> {},
         rendered |-> {}, handler |-> [t \in 1..MaxTasks |-> "none"],
         events |-> 0]
NoBoot == [outcome |-> "none", probe |-> "false", path |-> NoPath,
           opens |-> <<>>, schemaLog |-> <<>>, failed |-> "none"]
IdleTask == [op |-> "none", content |-> "", todoId |-> 0, pc |-> "idle",
             log |-> <<>>, failedCalls |-> {}, conn |-> "none",
             error |-> "none", result |-> <<>>, count |-> 0]

-----------------------------------------------------------------------------
(* initializeDatabase and createDatabaseSchema *)

\* The engine calls of the bootstrap, each of which may fail.
InitSteps ==
  {"worker", "instantiate", "openDurable", "openMemory", "openFallback",
   "schemaConnect", "createTable", "createSequence", "schemaClose"}

SchemaSteps == {"schemaConnect", "createTable", "createSequence", "schemaClose"}
FaultSets == {f \in SUBSET InitSteps : Cardinality(f) <= MaxFaults}

\* A schema creation that swallows its errors.
createDatabaseSchemaSwallowing(db, faults) ==
  IF "schemaConnect" \in faults
    THEN [db |-> db, threw |-> "none", log |-> <<"schemaConnect">>]
  ELSE
    LET afterTable == IF "createTable" \in faults THEN db ELSE CreateTable(db)
        afterSeq == IF "createTable" \in faults \/ "createSequence" \in faults
                      THEN afterTable ELSE CreateSequence(afterTable)
    IN [db |-> afterSeq, threw |-> "none",
        log |-> <<"schemaConnect", "createTable", "createSequence",
                  "schemaClose">>]

\* createDatabaseSchema: connect, two queries inside try, close in finally.
\* Returns the database, the call whose error the caller sees and the calls
\* it issued.
createDatabaseSchema(db, faults) ==
  IF "schemaConnect" \in faults
    THEN [db |-> db, threw |-> "schemaConnect", log |-> <<"schemaConnect">>]
  ELSE
    LET afterTable == IF "createTable" \in faults THEN db ELSE CreateTable(db)
        afterSeq == IF "createTable" \in faults \/ "createSequence" \in faults
                      THEN afterTable ELSE CreateSequence(afterTable)
        tryError == IF "createTable" \in faults THEN "createTable"
                    ELSE IF "createSequence" \in faults THEN "createSequence"
                    ELSE "none"
    IN [db |-> afterSeq,
        threw |-> IF "schemaClose" \in faults THEN "schemaClose" ELSE tryError,
        log |-> <<"schemaConnect", "createTable">>
                \o (IF "createTable" \in faults THEN <<>>
                    ELSE <<"createSequence">>)
                \o <<"schemaClose">>]

\* Open attempts without the catch block: a failed open is not retried.
openAttemptsNoFallback(h, opfsSupported, dbPath, faults) ==
  IF opfsSupported /\ startsWithOpfs(dbPath)
    THEN << [path |-> dbPath,
             ok |-> "openDurable" \notin faults /\ h.getDirectory = "function"] >>
    ELSE << [path |-> MemoryPath, ok |-> "openMemory" \notin faults] >>

\* The open attempts of step 4, in order: the path and whether it opened.
\* The engine opens an opfs:// path through navigator.storage.getDirectory().
openAttempts(h, opfsSupported, dbPath, faults) ==
  LET fallback == [path |-> MemoryPath, ok |-> "openFallback" \notin faults]
  IN IF opfsSupported /\ startsWithOpfs(dbPath)
       THEN IF "openDurable" \notin faults /\ h.getDirectory = "function"
              THEN << [path |-> dbPath, ok |-> TRUE] >>
              ELSE << [path |-> dbPath, ok |-> FALSE], fallback >>
       ELSE IF "openMemory" \notin faults
              THEN << [path |-> MemoryPath, ok |-> TRUE] >>
              ELSE << [path |-> MemoryPath, ok |-> FALSE], fallback >>

\* A flag that the catch block does not reset.
actuallyUsingOpfsNoCatch(opfsSupported, dbPath, opens) ==
  opfsSupported /\ startsWithOpfs(dbPath)

\* A flag that repeats the probe.
actuallyUsingOpfsProbeOnly(opfsSupported, dbPath, opens) ==
  opfsSupported

\* let actuallyUsingOpfs = opfsSupported, set to false in the else branch
\* and in the catch
actuallyUsingOpfs(opfsSupported, dbPath, opens) ==
  /\ opfsSupported
  /\ startsWithOpfs(dbPath)
  /\ Len(opens) = 1

\* The part of initializeDatabase that does not read the database: which
\* call, if any, makes it throw, what it opened and the flag it computed.
bootRun(h, options, faults) ==
  LET probe == isOpfsSupported(h)
      opfsSupported == probe = "true"
      dbPath == dbPathOf(options)
      opens == openAttempts(h, opfsSupported, dbPath, faults)
      last == opens[Len(opens)]
      schema == createDatabaseSchema(EmptyDb, faults)
      schemaThrew == schema.threw
      failed == IF probe = "throw" THEN "probe"
                ELSE IF "worker" \in faults THEN "worker"
                ELSE IF "instantiate" \in faults THEN "instantiate"
                ELSE IF ~last.ok THEN "open"
                ELSE schemaThrew
  IN [failed |-> failed,
      probe |-> probe,
      path |-> IF probe = "throw" THEN NoPath ELSE dbPath,
      opens |-> IF failed \in {"probe", "worker", "instantiate"} THEN <<>>
                ELSE opens,
      schemaLog |-> IF failed \in {"probe", "worker", "instantiate", "open"}
                      THEN <<>> ELSE schema.log,
      opened |-> IF failed = "none" THEN last.path ELSE NoPath,
      isOpfsSupported |-> failed = "none"
                          /\ actuallyUsingOpfs(opfsSupported, dbPath, opens),
      schemaFaults |-> IF failed = "none" THEN faults \cap SchemaSteps ELSE {}]

\* A database opened without reading the file that is there.
loadDatabaseFresh(w, path) == EmptyDb

\* An in-memory database that outlives its worker.
loadDatabaseKeeping(w, path) ==
  IF path \in DurableFiles THEN w.disk[path] ELSE w.mem

\* db.open({ path }): the database the new worker sees.  The durable file
\* holds what was checkpointed into it; ':memory:' starts empty.
loadDatabase(w, path) ==
  IF path \in DurableFiles THEN w.disk[path] ELSE EmptyDb

\* What the page keeps of a bootstrap: its outcome and the calls it made.
bootRecord(run) ==
  [outcome |-> IF run.failed = "none" THEN "returned" ELSE "threw",
   probe |-> run.probe, path |-> run.path, opens |-> run.opens,
   schemaLog |-> run.schemaLog, failed |-> run.failed]

\* return { db, isOpfsSupported: actuallyUsingOpfs }, or the throw of the
\* outer catch: the worker is then unreachable and no state is handed over.
\* The results of the calls made before the bootstrap have been consumed.
finishBoot(w, run) ==
  IF run.failed # "none"
    THEN [w EXCEPT !.engine = "none", !.dbOpen = NoPath, !.mem = EmptyDb,
                   !.tasks = [t \in Slots |-> IdleTask],
                   !.boot = bootRecord(run)]
    ELSE [w EXCEPT
            !.tasks = [t \in Slots |-> IdleTask],
            !.engine = "running",
            !.dbOpen = run.opened,
            !.mem = createDatabaseSchema(loadDatabase(w, run.opened),
                                         run.schemaFaults).db,
            !.dbState = [db |-> "handle", isOpfsSupported |-> run.isOpfsSupported],
            !.boot = bootRecord(run)]

initializeDatabase(w, h, options, faults) ==
  finishBoot(w, bootRun(h, options, faults))

\* Every way a bootstrap can go, over the hosts, the options and the faults.
BootRuns ==
  {bootRun(h, options, faults) :
     h \in HostEnvs, options \in PathOptions, faults \in FaultSets}

-----------------------------------------------------------------------------
(* The engine calls of the record store and of closeDatabase *)

Mutations ==
  {"addTodoItem", "toggleTodoItem", "clearTodoItems", "clearCompletedTodoItems"}
RecordStoreOps == Mutations \cup {"getTodoItems"}
Operations == RecordStoreOps \cup {"closeDatabase"}

InFlight(task) == task.pc \notin {"idle", "done"}

\* A CHECKPOINT that writes nothing.
CheckpointNoFlush(w) == w

\* conn.query('CHECKPOINT'): the engine's database goes into the open file.
Checkpoint(w) ==
  IF w.dbOpen \in DurableFiles
    THEN [w EXCEPT !.disk[w.dbOpen] = w.mem]
    ELSE w

\* A call order in which the mutations skip their CHECKPOINT.
nextCallNoCheckpoint(op, pc) ==
  CASE pc = "connect" ->
         (CASE op \in {"addTodoItem", "toggleTodoItem"} -> "prepare"
            [] op = "clearTodoItems" -> "delete"
            [] op = "clearCompletedTodoItems" -> "count"
            [] op = "getTodoItems" -> "select"
            [] op = "closeDatabase" -> "checkpoint")
    [] pc = "prepare" -> "execute"
    [] pc = "execute" -> "stmtClose"
    [] pc = "count" -> "delete"
    [] pc \in {"stmtClose", "delete", "select", "checkpoint"} -> "connClose"
    [] pc = "connClose" -> IF op = "closeDatabase" THEN "terminate" ELSE "done"
    [] pc = "terminate" -> "done"

\* A call order in which closeDatabase terminates the worker before it
\* flushes.
nextCallTerminateFirst(op, pc) ==
  CASE pc = "connect" ->
         (CASE op \in {"addTodoItem", "toggleTodoItem"} -> "prepare"
            [] op = "clearTodoItems" -> "delete"
            [] op = "clearCompletedTodoItems" -> "count"
            [] op = "getTodoItems" -> "select"
            [] op = "closeDatabase" -> "terminate")
    [] pc = "prepare" -> "execute"
    [] pc = "execute" -> "stmtClose"
    [] pc = "stmtClose" -> "checkpoint"
    [] pc = "count" -> "delete"
    [] pc = "delete" -> "checkpoint"
    [] pc = "select" -> "connClose"
    [] pc = "checkpoint" -> "connClose"
    [] pc = "connClose" -> "done"
    [] pc = "terminate" -> "checkpoint"

\* The call an operation issues once its call pc has been answered.
nextCall(op, pc) ==
  CASE pc = "connect" ->
         (CASE op \in {"addTodoItem", "toggleTodoItem"} -> "prepare"
            [] op = "clearTodoItems" -> "delete"
            [] op = "clearCompletedTodoItems" -> "count"
            [] op = "getTodoItems" -> "select"
            [] op = "closeDatabase" -> "checkpoint")
    [] pc = "prepare" -> "execute"
    [] pc = "execute" -> "stmtClose"
    [] pc = "stmtClose" -> "checkpoint"
    [] pc = "count" -> "delete"
    [] pc = "delete" -> "checkpoint"
    [] pc = "select" -> "connClose"
    [] pc = "checkpoint" -> "connClose"
    [] pc = "connClose" -> IF op = "closeDatabase" THEN "terminate" ELSE "done"
    [] pc = "terminate" -> "done"

\* A statement that is acknowledged and does nothing.
statementNoop(db, task, ts) == db

\* What the statement of a mutation does to the database.
statement(db, task, ts) ==
  CASE task.op = "addTodoItem" -> InsertTodo(db, task.content, ts)
    [] task.op = "toggleTodoItem" -> ToggleTodo(db, task.todoId, ts)
    [] task.op = "clearTodoItems" -> DeleteAll(db)
    [] task.op = "clearCompletedTodoItems" -> DeleteCompleted(db)

\* A closeDatabase that throws on a null handle as the other operations do.
startCallCloseThrows(w, t, op, content, todoId) ==
  LET fresh == [IdleTask EXCEPT !.op = op, !.content = content, !.todoId = todoId]
  IN IF w.dbState.db = "null"
       THEN [w EXCEPT !.tasks[t] =
               [fresh EXCEPT !.pc = "done", !.error = "NotInitialized"]]
       ELSE [w EXCEPT !.tasks[t] = [fresh EXCEPT !.pc = "connect"]]

\* An operation that does not look at the handle before it connects.
startCallUnguarded(w, t, op, content, todoId) ==
  [w EXCEPT !.tasks[t] =
     [IdleTask EXCEPT !.op = op, !.content = content, !.todoId = todoId,
                      !.pc = "connect"]]

\* if (!dbState.db) throw ...; const conn = await dbState.db.connect()
\* (closeDatabase returns instead of throwing).
startCall(w, t, op, content, todoId) ==
  LET fresh == [IdleTask EXCEPT !.op = op, !.content = content, !.todoId = todoId]
  IN IF w.dbState.db = "null"
       THEN [w EXCEPT !.tasks[t] =
               [fresh EXCEPT !.pc = "done",
                             !.error = IF op = "closeDatabase" THEN "none"
                                       ELSE "NotInitialized"]]
       ELSE [w EXCEPT !.tasks[t] = [fresh EXCEPT !.pc = "connect"]]

\* What a call may yield besides success or failure: the row order of the
\* SELECT, and the state a failed terminate() leaves the worker in.
Picks(w, t) ==
  CASE w.tasks[t].pc = "select" -> SelectOrders(w.mem)
    [] w.tasks[t].pc = "terminate" -> {<<"running">>, <<"terminated">>}
    [] OTHER -> {<<>>}

\* An operation without the finally block: a failed call ends it at once.
failInTryLeaking(w, t) ==
  [w EXCEPT !.tasks[t].pc = "done", !.tasks[t].error = "engine"]

\* An operation that checkpoints after a failed call before it gives up.
failInTryFlushing(w, t) ==
  [w EXCEPT !.tasks[t].pc = IF w.tasks[t].pc = "checkpoint" THEN "connClose"
                            ELSE "checkpoint",
            !.tasks[t].error = "engine"]

\* An operation that gives up its handle when a call fails.
failInTryDroppingHandle(w, t) ==
  [w EXCEPT !.tasks[t].pc = "connClose", !.tasks[t].error = "engine",
            !.dbState.db = "null"]

\* A closeDatabase without the catch around its CHECKPOINT.
failInTryNoCatch(w, t) ==
  [w EXCEPT !.tasks[t].pc = "connClose", !.tasks[t].error = "engine"]

\* A call inside the try block failed: the finally block closes the connection.
\* closeDatabase catches a failed CHECKPOINT and goes on.
failInTry(w, t) ==
  LET task == w.tasks[t]
  IN IF task.op = "closeDatabase" /\ task.pc = "checkpoint"
       THEN [w EXCEPT !.tasks[t].pc = "connClose"]
       ELSE [w EXCEPT !.tasks[t].pc = "connClose", !.tasks[t].error = "engine"]

\* A closeDatabase that leaves the handle in place after terminate().
stepTaskKeepingHandle(w, t, ok, pick) ==
  LET task == w.tasks[t]
      answered == ok /\ w.engine = "running"
      succeeded == IF task.pc = "terminate" THEN ok ELSE answered
      w1 == [w EXCEPT
               !.tasks[t].log = Append(task.log, task.pc),
               !.tasks[t].failedCalls =
                  IF succeeded THEN @ ELSE @ \cup {task.pc},
               !.tasks[t].conn =
                  CASE task.pc = "connect" /\ succeeded -> "open"
                    [] task.pc = "connClose" -> "closed"
                    [] OTHER -> @]
      w2 == [w1 EXCEPT !.tasks[t].pc = nextCall(task.op, task.pc)]
  IN CASE task.pc \in {"connect", "connClose"} ->
            IF answered THEN w2
            ELSE [w1 EXCEPT !.tasks[t].pc = "done", !.tasks[t].error = "engine"]
       [] task.pc \in {"prepare", "stmtClose"} ->
            IF answered THEN w2 ELSE failInTry(w1, t)
       [] task.pc \in {"execute", "delete"} ->
            IF answered
              THEN [w2 EXCEPT !.mem = statement(w.mem, task, w.now)]
              ELSE failInTry(w1, t)
       [] task.pc = "count" ->
            IF answered
              THEN [w2 EXCEPT !.tasks[t].count = CountCompleted(w.mem)]
              ELSE failInTry(w1, t)
       [] task.pc = "select" ->
            IF answered
              THEN [w2 EXCEPT !.tasks[t].result = pick]
              ELSE failInTry(w1, t)
       [] task.pc = "checkpoint" ->
            IF answered THEN Checkpoint(w2) ELSE failInTry(w1, t)
       [] task.pc = "terminate" ->
            IF ok
              THEN [w2 EXCEPT !.engine = "terminated"]
              ELSE [w1 EXCEPT !.tasks[t].pc = "done",
                              !.tasks[t].error = "engine",
                              !.engine = pick[1]]

\* One engine call of task t, answered ok or with an error.  A call to a
\* worker that is not running fails.
stepTask(w, t, ok, pick) ==
  LET task == w.tasks[t]
      answered == ok /\ w.engine = "running"
      succeeded == IF task.pc = "terminate" THEN ok ELSE answered
      w1 == [w EXCEPT
               !.tasks[t].log = Append(task.log, task.pc),
               !.tasks[t].failedCalls =
                  IF succeeded THEN @ ELSE @ \cup {task.pc},
               !.tasks[t].conn =
                  CASE task.pc = "connect" /\ succeeded -> "open"
                    [] task.pc = "connClose" -> "closed"
                    [] OTHER -> @]
      w2 == [w1 EXCEPT !.tasks[t].pc = nextCall(task.op, task.pc)]
  IN CASE task.pc = "connect" ->
            IF answered THEN w2
            ELSE [w1 EXCEPT !.tasks[t].pc = "done", !.tasks[t].error = "engine"]
       [] task.pc \in {"prepare", "stmtClose"} ->
            IF answered THEN w2 ELSE failInTry(w1, t)
       [] task.pc \in {"execute", "delete"} ->
            IF answered
              THEN [w2 EXCEPT !.mem = statement(w.mem, task, w.now)]
              ELSE failInTry(w1, t)
       [] task.pc = "count" ->
            IF answered
              THEN [w2 EXCEPT !.tasks[t].count = CountCompleted(w.mem)]
              ELSE failInTry(w1, t)
       [] task.pc = "select" ->
            IF answered
              THEN [w2 EXCEPT !.tasks[t].result = pick]
              ELSE failInTry(w1, t)
       [] task.pc = "checkpoint" ->
            IF answered THEN Checkpoint(w2) ELSE failInTry(w1, t)
       [] task.pc = "connClose" ->
            IF answered THEN w2
            ELSE [w1 EXCEPT !.tasks[t].pc = "done", !.tasks[t].error = "engine"]
       [] task.pc = "terminate" ->
            IF ok
              THEN [w2 EXCEPT !.engine = "terminated", !.dbState.db = "null"]
              ELSE [w1 EXCEPT !.tasks[t].pc = "done",
                              !.tasks[t].error = "engine",
                              !.engine = pick[1]]

\* The page is reloaded or closed: the worker and every pending call are gone.
\* Writes that were never checkpointed may or may not have reached the file.
reload(w, survives) ==
  [w EXCEPT
     !.disk = IF survives /\ w.engine = "running" THEN Checkpoint(w).disk
              ELSE w.disk,
     !.engine = "none",
     !.dbOpen = NoPath,
     !.mem = EmptyDb,
     !.dbState = NullState,
     !.boot = NoBoot,
     !.tasks = [t \in Slots |-> IdleTask],
     !.ui = NoUi]

-----------------------------------------------------------------------------
(* The state machine *)

Init ==
  /\ disk = [f \in DurableFiles |-> EmptyDb]
  /\ engine = "none"
  /\ dbOpen = NoPath
  /\ mem = EmptyDb
  /\ dbState = NullState
  /\ boot = NoBoot
  /\ tasks = [t \in Slots |-> IdleTask]
  /\ now = 0
  /\ ui = NoUi

\* The page calls initializeDatabase while it holds no open database.
Initialize ==
  /\ dbState.db = "null"
  /\ \A t \in Slots : ~InFlight(tasks[t])
  /\ \E run \in BootRuns : Becomes(finishBoot(World, run))

\* The caller starts an operation in the lowest slot that holds no running
\* call; the outcome of the bootstrap has been taken note of by then.
FreeSlot(t) ==
  /\ ~InFlight(tasks[t])
  /\ \A u \in Slots : u < t => InFlight(tasks[u])

NumInFlight == Cardinality({t \in Slots : InFlight(tasks[t])})

CallUpTo(limit) ==
  \E t \in Slots, op \in Operations :
    /\ FreeSlot(t)
    /\ NumInFlight < limit
    /\ op = "addTodoItem" => mem.seq <= MaxSeq
    /\ \E content \in (IF op = "addTodoItem" THEN Contents ELSE {""}),
          todoId \in (IF op = "toggleTodoItem" THEN 1..MaxSeq ELSE {0}) :
         Becomes([startCall(World, t, op, content, todoId)
                    EXCEPT !.boot = NoBoot])

\* The engine answers the pending call of a running operation.
Step ==
  \E t \in Slots, ok \in BOOLEAN :
    /\ InFlight(tasks[t])
    /\ \E pick \in Picks(World, t) : Becomes(stepTask(World, t, ok, pick))

Reload == \E survives \in BOOLEAN : Becomes(reload(World, survives))

Tick ==
  /\ now < MaxClock
  /\ now' = now + 1
  /\ UNCHANGED <<disk, engine, dbOpen, mem, dbState, boot, tasks, ui>>

\* A caller that awaits each call before it starts the next.
Call == CallUpTo(1)

\* A caller whose calls overlap, as event handlers that are not awaited do.
CallOverlapping == CallUpTo(MaxTasks)

Next == Initialize \/ Call \/ Step \/ Reload

Spec == Init /\ [][Next]_vars

\* A bootstrap in which no engine call fails.
InitializeClean ==
  /\ dbState.db = "null"
  /\ \A t \in Slots : ~InFlight(tasks[t])
  /\ \E run \in BootRuns :
       /\ run.failed = "none"
       /\ Len(run.opens) = 1
       /\ Becomes(finishBoot(World, run))

\* Any caller of the store, one call at a time: addTodoItem takes any text.
CallTexts ==
  \E op \in RecordStoreOps :
    /\ \A t \in Slots : ~InFlight(tasks[t])
    /\ op = "addTodoItem" => mem.seq <= MaxSeq
    /\ \E content \in (IF op = "addTodoItem" THEN Texts ELSE {""}),
          todoId \in (IF op = "toggleTodoItem" THEN 1..MaxSeq ELSE {0}) :
         Becomes([startCall(World, 1, op, content, todoId)
                    EXCEPT !.boot = NoBoot])

\* Handlers that are not awaited: addTodoItem calls that start while
\* earlier ones are still in flight.
CallOverlap ==
  \E t \in Slots, content \in Contents :
    /\ FreeSlot(t)
    /\ mem.seq <= MaxSeq
    /\ Becomes([startCall(World, t, "addTodoItem", content, 0)
                  EXCEPT !.boot = NoBoot])

NextOverlap == InitializeClean \/ CallOverlap \/ Step

SpecOverlap == Init /\ [][NextOverlap]_vars

\* A caller that awaits its calls while the wall clock runs: records are
\* added, toggled and listed at whatever times the clock shows.
CallClock ==
  \E op \in {"addTodoItem", "toggleTodoItem", "getTodoItems"} :
    /\ \A t \in Slots : ~InFlight(tasks[t])
    /\ op = "addTodoItem" => mem.seq <= MaxSeq
    /\ \E content \in (IF op = "addTodoItem" THEN Contents ELSE {""}),
          todoId \in (IF op = "toggleTodoItem" THEN 1..MaxSeq ELSE {0}) :
         Becomes([startCall(World, 1, op, content, todoId)
                    EXCEPT !.boot = NoBoot])

NextClock == InitializeClean \/ CallClock \/ Step \/ Tick

SpecClock == Init /\ [][NextClock]_vars

\* A caller of the record store on one open database, one call at a time.
CallRecords ==
  \E op \in RecordStoreOps :
    /\ \A t \in Slots : ~InFlight(tasks[t])
    /\ op = "addTodoItem" => mem.seq <= MaxSeq
    /\ \E content \in (IF op = "addTodoItem" THEN Contents ELSE {""}),
          todoId \in (IF op = "toggleTodoItem" THEN 1..MaxSeq ELSE {0}) :
         Becomes([startCall(World, 1, op, content, todoId)
                    EXCEPT !.boot = NoBoot])

NextRecords == InitializeClean \/ CallRecords \/ Step

SpecRecords == Init /\ [][NextRecords]_vars

\* Callers that do not await each other: addTodoItem, toggleTodoItem and
\* clearCompletedTodoItems calls that start while others are in flight on
\* the same state.
CallInterleaved ==
  \E t \in Slots,
     op \in {"addTodoItem", "toggleTodoItem", "clearCompletedTodoItems"} :
    /\ FreeSlot(t)
    /\ op = "addTodoItem" => mem.seq <= MaxSeq
    /\ \E content \in (IF op = "addTodoItem" THEN Contents ELSE {""}),
          todoId \in (IF op = "toggleTodoItem" THEN 1..MaxSeq ELSE {0}) :
         Becomes([startCall(World, t, op, content, todoId)
                    EXCEPT !.boot = NoBoot])

NextInterleaved == InitializeClean \/ CallInterleaved \/ Step

SpecInterleaved == Init /\ [][NextInterleaved]_vars

\* The page is being left: closeDatabase is started from the beforeunload
\* listener, not awaited, while addTodoItem calls may be in flight or start.
CallWhileClosing ==
  \E t \in Slots, op \in {"addTodoItem", "closeDatabase"} :
    /\ FreeSlot(t)
    /\ op = "addTodoItem" => mem.seq <= MaxSeq
    /\ \E content \in (IF op = "addTodoItem" THEN Contents ELSE {""}) :
         Becomes([startCall(World, t, op, content, 0)
                    EXCEPT !.boot = NoBoot])

NextClosing == InitializeClean \/ CallWhileClosing \/ Step \/ Reload

SpecClosing == Init /\ [][NextClosing]_vars

-----------------------------------------------------------------------------
(* The page: event listeners and handlers *)

\* The button a handler disables while it runs ("none": it disables nothing).
buttonOf(handler) ==
  CASE handler = "handleAddTodo" -> "addButton"
    [] handler = "handleClearCompleted" -> "clearCompletedButton"
    [] handler = "handleClearAllTodos" -> "clearAllButton"
    [] OTHER -> "none"

\* The end of a handler: the catch logs, the finally re-enables the
\* handler's own button, and the slot is free again.
handlerReturns(w, t) ==
  [w EXCEPT !.ui.disabled = @ \ {buttonOf(w.ui.handler[t])},
            !.ui.handler[t] = "none",
            !.tasks[t] = IdleTask]

\* renderTodos: one checkbox per record listed, each with a change listener.
renderTodos(w, t) ==
  [w EXCEPT !.ui.rendered = {w.tasks[t].result[i].id :
                               i \in 1..Len(w.tasks[t].result)}]

\* What the handler in slot t does once the call it awaits has settled,
\* in the same turn: after a mutation that succeeded it calls
\* refreshTodosDisplay, which starts getTodoItems; after a list it renders;
\* after any failure, and after the refresh, it returns.
handlerContinues(w, t) ==
  IF w.ui.handler[t] = "none" \/ w.tasks[t].pc # "done" THEN w
  ELSE IF w.tasks[t].error # "none" THEN handlerReturns(w, t)
  ELSE IF w.tasks[t].op = "getTodoItems"
    THEN handlerReturns(renderTodos(w, t), t)
  ELSE LET refresh == startCall(w, t, "getTodoItems", "", 0)
       IN IF refresh.tasks[t].pc = "done" THEN handlerReturns(refresh, t)
          ELSE refresh

\* A handler starts in slot t: it disables its button and makes its call.
handlerStarts(w, t, handler, op, content, todoId) ==
  LET entered == [w EXCEPT !.boot = NoBoot,
                           !.ui.events = @ + 1,
                           !.ui.handler[t] = handler,
                           !.ui.disabled = @ \cup ({buttonOf(handler)} \ {"none"})]
  IN handlerContinues(startCall(entered, t, op, content, todoId), t)

\* initializeApp: the listeners are set up, then initializeDatabaseConnection
\* awaits initializeDatabase() (default options), keeps the state in
\* appState.database and loads the list.
PageBootRuns ==
  {bootRun(h, Undefined, faults) : h \in HostEnvs, faults \in FaultSets}

InitializeApp ==
  /\ ~ui.started
  /\ \E run \in PageBootRuns :
       LET booted == finishBoot([World EXCEPT !.ui.started = TRUE], run)
       IN IF booted.dbState.db = "null" THEN Becomes(booted)
          ELSE Becomes(handlerContinues(
                 startCall([booted EXCEPT
                              !.ui.database = TRUE,
                              !.ui.handler[1] = "initializeDatabaseConnection"],
                           1, "getTodoItems", "", 0), 1))

\* A handler can run: appState.database is set (its first guard), and the
\* model has a slot and an event left for it.
handlerCanRun(t) == ui.database /\ FreeSlot(t) /\ ui.events < MaxEvents

\* A click on the Add button, which a disabled button does not deliver; the
\* input holds a text that is not blank.
ClickAdd ==
  \E t \in Slots, content \in Contents :
    /\ handlerCanRun(t)
    /\ "addButton" \notin ui.disabled
    /\ mem.seq <= MaxSeq
    /\ Becomes(handlerStarts(World, t, "handleAddTodo", "addTodoItem", content, 0))

\* Enter in the input: the keypress listener calls handleAddTodo whatever
\* the state of the button.
EnterKey ==
  \E t \in Slots, content \in Contents :
    /\ handlerCanRun(t)
    /\ mem.seq <= MaxSeq
    /\ Becomes(handlerStarts(World, t, "handleAddTodo", "addTodoItem", content, 0))

\* A change of one of the rendered checkboxes.
CheckboxChange ==
  \E t \in Slots, todoId \in ui.rendered :
    /\ handlerCanRun(t)
    /\ Becomes(handlerStarts(World, t, "handleToggleTodo", "toggleTodoItem",
                             "", todoId))

\* A click on Clear Completed, confirmed.
ClickClearCompleted ==
  \E t \in Slots :
    /\ handlerCanRun(t)
    /\ "clearCompletedButton" \notin ui.disabled
    /\ Becomes(handlerStarts(World, t, "handleClearCompleted",
                             "clearCompletedTodoItems", "", 0))

\* A click on Clear All Todos, confirmed.
ClickClearAll ==
  \E t \in Slots :
    /\ handlerCanRun(t)
    /\ "clearAllButton" \notin ui.disabled
    /\ Becomes(handlerStarts(World, t, "handleClearAllTodos",
                             "clearTodoItems", "", 0))

\* The engine answers the pending call of a handler, and the handler runs on
\* to its next await or to its end.
HandlerStep ==
  \E t \in Slots, ok \in BOOLEAN :
    /\ InFlight(tasks[t])
    /\ \E pick \in Picks(World, t) :
         Becomes(handlerContinues(stepTask(World, t, ok, pick), t))

NextPage ==
  \/ InitializeApp
  \/ ClickAdd
  \/ EnterKey
  \/ CheckboxChange
  \/ ClickClearCompleted
  \/ ClickClearAll
  \/ HandlerStep

SpecPage == Init /\ [][NextPage]_vars

NextTexts == InitializeClean \/ CallTexts \/ Step

SpecTexts == Init /\ [][NextTexts]_vars

-----------------------------------------------------------------------------
(* The bootstrap: fallback, all-or-nothing, what makes it throw, the flag *)

\* The last bootstrap tried the durable file first and that open failed.
durableOpenFailed ==
  /\ Len(boot.opens) > 0
  /\ startsWithOpfs(boot.opens[1].path)
  /\ ~boot.opens[1].ok

\* C4 as stated: whenever the open of the durable database fails,
\* initializeDatabase returns a state whose isOpfsSupported is false and
\* does not throw.
C4_FallbackNeverThrows ==
  durableOpenFailed =>
    boot.outcome = "returned" /\ ~dbState.isOpfsSupported

\* C4: when the open of the durable database fails, initializeDatabase
\* opens ':memory:' instead; if that open and the schema creation succeed
\* it returns a state whose isOpfsSupported is false on the in-memory
\* database, and otherwise it throws and hands over no state.
C4_FallbackToMemory ==
  durableOpenFailed =>
    /\ Len(boot.opens) = 2
    /\ boot.opens[2].path = MemoryPath
    /\ IF boot.opens[2].ok /\ boot.failed \notin SchemaSteps
         THEN /\ boot.outcome = "returned"
              /\ ~dbState.isOpfsSupported
              /\ dbOpen = MemoryPath
         ELSE /\ boot.outcome = "threw"
              /\ dbState.db = "null"

C4_Witness ==
  /\ durableOpenFailed
  /\ boot.outcome = "returned"
  /\ dbState.db = "handle"
  /\ ~dbState.isOpfsSupported
  /\ dbOpen = MemoryPath

\* C5: initializeDatabase is all-or-nothing.  A bootstrap that returned
\* handed over a handle to a running worker; on every state with a handle a
\* database is open, the todos table and the id sequence exist, and the flag
\* says whether the open database is the durable file.  A bootstrap that
\* threw handed over no state.
C5_AllOrNothing ==
  /\ boot.outcome = "returned" =>
        /\ boot.failed = "none"
        /\ dbState.db = "handle"
        /\ engine = "running"
  /\ dbState.db = "handle" =>
        /\ engine # "none"
        /\ dbOpen # NoPath
        /\ mem.hasTable
        /\ mem.hasSeq
        /\ dbState.isOpfsSupported <=> dbOpen \in DurableFiles
  /\ boot.outcome = "threw" =>
        /\ boot.failed # "none"
        /\ dbState.db = "null"
        /\ dbOpen = NoPath

C5_Witness ==
  /\ boot.outcome = "returned"
  /\ dbState.db = "handle"
  /\ engine = "running"
  /\ dbOpen \in DurableFiles
  /\ mem.hasTable
  /\ mem.hasSeq

\* C6 as stated: initializeDatabase throws only if the worker cannot be
\* created or db.instantiate fails.
C6_ThrowsOnlyOnEngineLoad ==
  boot.outcome = "threw" => boot.failed \in {"worker", "instantiate"}

\* C6: initializeDatabase throws only if the capability probe throws, the
\* worker cannot be created, db.instantiate fails, the open of ':memory:'
\* that follows a failed open fails as well, or the schema creation fails.
\* A single failed open, durable or in-memory, does not make it throw.
C6_WhatMakesBootThrow ==
  /\ boot.outcome = "threw" =>
        \/ boot.failed \in {"probe", "worker", "instantiate"} \cup SchemaSteps
        \/ /\ boot.failed = "open"
           /\ Len(boot.opens) = 2
           /\ ~boot.opens[1].ok
           /\ boot.opens[2] = [path |-> MemoryPath, ok |-> FALSE]
  /\ boot.outcome = "returned" =>
        /\ boot.probe # "throw"
        /\ Len(boot.opens) \in {1, 2}
        /\ boot.opens[Len(boot.opens)].ok

C6_Witness ==
  /\ boot.outcome = "threw"
  /\ boot.failed = "open"
  /\ boot.opens[2] = [path |-> MemoryPath, ok |-> FALSE]

\* C7: the flag a bootstrap returns is true exactly when the probe returned
\* true, the requested path starts with 'opfs://' and the open of that path
\* succeeded, and then the open database is that durable file; in every
\* other case the open database is ':memory:' and the flag is false.
C7_TruthfulMode ==
  boot.outcome = "returned" =>
    /\ dbState.isOpfsSupported <=>
          /\ boot.probe = "true"
          /\ startsWithOpfs(boot.path)
          /\ boot.opens = << [path |-> boot.path, ok |-> TRUE] >>
    /\ IF dbState.isOpfsSupported
         THEN dbOpen = boot.path /\ dbOpen \in DurableFiles
         ELSE dbOpen = MemoryPath

C7_Witness ==
  /\ boot.outcome = "returned"
  /\ dbState.isOpfsSupported
  /\ boot.probe = "true"
  /\ dbOpen = DefaultPath

-----------------------------------------------------------------------------
(* Whole calls, for the scenarios that chain several of them *)

RECURSIVE finish(_, _, _, _)
\* Task t run to its end: the calls named in fails are answered with an
\* error, every other call succeeds.
finish(w, t, fails, pick) ==
  IF ~InFlight(w.tasks[t]) THEN w
  ELSE finish(stepTask(w, t, w.tasks[t].pc \notin fails, pick), t, fails, pick)

RECURSIVE runs(_, _)
\* Every world task t can leave behind, stopped after any number of its
\* calls, whatever the engine answers.
runs(w, t) ==
  {w} \cup
  (IF InFlight(w.tasks[t])
     THEN UNION {runs(stepTask(w, t, ok, pick), t) :
                   ok \in BOOLEAN, pick \in Picks(w, t)}
     ELSE {})

\* closeDatabase(dbState) started in slot t, at each point it can have reached.
closeRuns(w, t) == runs(startCall(w, t, "closeDatabase", "", 0), t)

\* The worlds in which closeDatabase has finished, returning or throwing.
closeEnds(w, t) == {c \in closeRuns(w, t) : ~InFlight(c.tasks[t])}

\* A fresh page after the world w: the same page once its handle is null,
\* or the page after a reload.
freshPages(w) ==
  (IF w.dbState.db = "null" THEN {w} ELSE {})
    \cup {reload(w, survives) : survives \in BOOLEAN}

\* The bootstraps that return with the database path open.
bootsOpening(path) ==
  {run \in BootRuns : run.failed = "none" /\ run.opened = path}

\* getTodoItems(dbState) with every call answered, the rows in the order pick.
getTodoItems(w, pick) ==
  finish(startCall(w, 1, "getTodoItems", "", 0), 1, {}, pick).tasks[1]

rowsOf(list) == {list[i] : i \in 1..Len(list)}

\* Task t is a call of op that has returned without an error on a state
\* with an engine handle.
returnedOk(t, ops) ==
  /\ tasks[t].pc = "done"
  /\ tasks[t].op \in ops
  /\ tasks[t].error = "none"
  /\ tasks[t].log # <<>>
  /\ dbState.db = "handle"

\* The step starts a call in slot t.
callStarts(t) ==
  /\ ~InFlight(tasks[t])
  /\ tasks'[t] # tasks[t]
  /\ tasks'[t].op # "none"

\* The call started in slot t was refused before it reached the engine.
rejected(t) ==
  /\ tasks'[t].pc = "done"
  /\ tasks'[t].error = "NotInitialized"
  /\ tasks'[t].log = <<>>
  /\ UNCHANGED <<disk, engine, dbOpen, mem, dbState>>

-----------------------------------------------------------------------------
(* The write path and the handle *)

\* C3: a mutation that has returned successfully, in durable and in volatile
\* mode alike, made its engine calls in this order: one connect, first; the
\* mutating statement; one CHECKPOINT, after the statement; one connection
\* close, last.
C3_WritePathShape ==
  \A t \in Slots :
    (tasks[t].pc = "done" /\ tasks[t].op \in Mutations
       /\ tasks[t].error = "none") =>
      LET log == tasks[t].log
          at(c) == {i \in 1..Len(log) : log[i] = c}
      IN /\ at("connect") = {1}
         /\ at("connClose") = {Len(log)}
         /\ Cardinality(at("checkpoint")) = 1
         /\ Cardinality(at("execute") \cup at("delete")) = 1
         /\ \A i \in at("execute") \cup at("delete") :
              \A j \in at("checkpoint") : i < j
         /\ log = CASE tasks[t].op \in {"addTodoItem", "toggleTodoItem"} ->
                         <<"connect", "prepare", "execute", "stmtClose",
                           "checkpoint", "connClose">>
                    [] tasks[t].op = "clearTodoItems" ->
                         <<"connect", "delete", "checkpoint", "connClose">>
                    [] tasks[t].op = "clearCompletedTodoItems" ->
                         <<"connect", "count", "delete", "checkpoint",
                           "connClose">>

C3_Witness ==
  /\ returnedOk(1, {"clearCompletedTodoItems"})
  /\ ~dbState.isOpfsSupported
  /\ dbOpen = MemoryPath
  /\ tasks[1].count > 0

\* C9: a call of addTodoItem, getTodoItems, toggleTodoItem, clearTodoItems
\* or clearCompletedTodoItems on a state whose handle is null fails with the
\* not-initialized error before any engine call: no connection, no statement,
\* nothing changed.
C9_NullHandleRejected ==
  [][\A t \in Slots :
       (callStarts(t) /\ tasks'[t].op \in RecordStoreOps
          /\ dbState.db = "null") => rejected(t)]_vars

C9_Witness ==
  /\ engine = "none"
  /\ boot.outcome = "none"
  /\ dbState.db = "null"
  /\ tasks[1].op = "toggleTodoItem"
  /\ tasks[1].pc = "done"
  /\ tasks[1].error = "NotInitialized"
  /\ tasks[1].log = <<>>

\* closeDatabase, called on a state with a handle, has finished in slot t.
closeFinished(t) ==
  /\ tasks[t].op = "closeDatabase"
  /\ tasks[t].pc = "done"
  /\ tasks[t].log # <<>>

\* C10 as stated: once a call of closeDatabase on an initialized state has
\* finished, the next record store call on that state is rejected with the
\* not-initialized error.
C10_RejectedAfterAnyClose ==
  [][\A t \in Slots :
       (closeFinished(t) /\ callStarts(t)
          /\ tasks'[t].op \in RecordStoreOps) => rejected(t)]_vars

\* C10: once a call of closeDatabase on an initialized state has returned
\* normally, the handle is null and the worker is terminated, they stay so
\* under every record store call, and each such call is rejected with the
\* not-initialized error as before bootstrap.  (A closeDatabase that throws,
\* because connect, the connection close or terminate failed, keeps the
\* handle.)
C10_RejectedAfterClose ==
  [][\A t \in Slots :
       /\ (closeFinished(t)' /\ ~closeFinished(t) /\ tasks'[t].error = "none")
            => (dbState'.db = "null" /\ engine' = "terminated")
       /\ (closeFinished(t) /\ tasks[t].error = "none" /\ callStarts(t)
             /\ tasks'[t].op \in RecordStoreOps) => rejected(t)
       /\ (dbState.db = "null" /\ callStarts(t)
             /\ tasks'[t].op \in RecordStoreOps)
            => (rejected(t) /\ dbState'.db = "null")]_vars

C10_Witness ==
  /\ engine = "terminated"
  /\ dbState.db = "null"
  /\ tasks[1].op = "addTodoItem"
  /\ tasks[1].pc = "done"
  /\ tasks[1].error = "NotInitialized"
  /\ tasks[1].log = <<>>

-----------------------------------------------------------------------------
(* What survives the page *)

\* A mutation has returned successfully in slot t of a durable session.
durableMutationReturned(t) ==
  /\ returnedOk(t, Mutations)
  /\ engine = "running"
  /\ dbState.isOpfsSupported
  /\ dbOpen \in DurableFiles

\* The list shows what the mutation of task did to the database db.
showsEffect(task, list, db) ==
  /\ rowsOf(list) = db.todos
  /\ Len(list) = Cardinality(db.todos)
  /\ task.op = "addTodoItem" =>
       \E r \in rowsOf(list) : r.content = task.content /\ ~r.completed
  /\ task.op = "clearTodoItems" => list = <<>>
  /\ task.op = "clearCompletedTodoItems" =>
       \A r \in rowsOf(list) : ~r.completed

\* C1: in durable mode, once a mutation has returned successfully its effect
\* is in the durable file.  Reload the page before closeDatabase has run, or
\* at any point of a closeDatabase that has not finished, keeping or losing
\* what was not checkpointed; then every initializeDatabase that opens the
\* same path and every getTodoItems that answers shows the database as the
\* mutation left it.
C1_DurableOnceReturned ==
  \A t \in Slots :
    durableMutationReturned(t) =>
      \A w \in {World} \cup closeRuns(World, t), survives \in BOOLEAN :
        \A run \in bootsOpening(dbOpen) :
          LET page == finishBoot(reload(w, survives), run)
          IN \A pick \in SelectOrders(page.mem) :
               LET get == getTodoItems(page, pick)
               IN /\ get.error = "none"
                  /\ showsEffect(tasks[t], get.result, mem)

C1_Witness ==
  /\ durableMutationReturned(1)
  /\ tasks[1].op = "toggleTodoItem"
  /\ \E r \in mem.todos : r.id = tasks[1].todoId /\ r.completed
  /\ disk[dbOpen] = mem

\* C2: in durable mode, after addTodoItem("x") has returned and
\* closeDatabase has finished, however its calls were answered, every fresh
\* initializeDatabase that opens the same path is followed by a getTodoItems
\* whose result contains a record with content "x".
C2_DurableRoundTrip ==
  \A t \in Slots :
    (durableMutationReturned(t) /\ tasks[t].op = "addTodoItem"
       /\ tasks[t].content = "x") =>
      \A closed \in closeEnds(World, t) :
        \A fresh \in freshPages(closed), run \in bootsOpening(dbOpen) :
          LET page == finishBoot(fresh, run)
          IN \A pick \in SelectOrders(page.mem) :
               LET get == getTodoItems(page, pick)
               IN /\ get.error = "none"
                  /\ \E i \in 1..Len(get.result) :
                       get.result[i].content = "x"

C2_Witness ==
  /\ durableMutationReturned(1)
  /\ tasks[1].op = "addTodoItem"
  /\ tasks[1].content = "x"
  /\ \E closed \in closeEnds(World, 1) :
       /\ closed.dbState.db = "null"
       /\ closed.tasks[1].error = "none"
       /\ \E r \in closed.disk[dbOpen].todos : r.content = "x"

\* C8: in volatile mode, after addTodoItem("x") has returned and
\* closeDatabase has finished, every fresh initializeDatabase that comes up
\* volatile again is followed by a getTodoItems whose result is empty.
C8_VolatileForgets ==
  \A t \in Slots :
    (returnedOk(t, {"addTodoItem"}) /\ tasks[t].content = "x"
       /\ ~dbState.isOpfsSupported /\ dbOpen = MemoryPath) =>
      \A closed \in closeEnds(World, t) :
        \A fresh \in freshPages(closed), run \in bootsOpening(MemoryPath) :
          LET page == finishBoot(fresh, run)
          IN \A pick \in SelectOrders(page.mem) :
               LET get == getTodoItems(page, pick)
               IN /\ get.error = "none"
                  /\ get.result = <<>>

C8_Witness ==
  /\ returnedOk(1, {"addTodoItem"})
  /\ tasks[1].content = "x"
  /\ ~dbState.isOpfsSupported
  /\ dbOpen = MemoryPath
  /\ \E r \in mem.todos : r.content = "x"
  /\ \E closed \in closeEnds(World, 1) : closed.dbState.db = "null"

-----------------------------------------------------------------------------
(* closeDatabase: idempotence and the best-effort flush *)

\* The positions of the call c in a call log.
callsOf(log, c) == {i \in 1..Len(log) : log[i] = c}

\* C11: closeDatabase called on a state whose handle is already null returns
\* without an error, issues no engine call and changes nothing; a
\* closeDatabase that returned normally has called terminate() once, so two
\* closeDatabase calls in a row terminate the worker exactly once.
C11_CloseIdempotent ==
  [][\A t \in Slots :
       /\ (callStarts(t) /\ tasks'[t].op = "closeDatabase"
             /\ dbState.db = "null") =>
            /\ tasks'[t].pc = "done"
            /\ tasks'[t].error = "none"
            /\ tasks'[t].log = <<>>
            /\ UNCHANGED <<disk, engine, dbOpen, mem, dbState>>
       /\ (closeFinished(t) /\ tasks[t].error = "none") =>
            /\ Cardinality(callsOf(tasks[t].log, "terminate")) = 1
            /\ dbState.db = "null"]_vars

C11_Witness ==
  /\ engine = "terminated"
  /\ dbState.db = "null"
  /\ tasks[1].op = "closeDatabase"
  /\ tasks[1].pc = "done"
  /\ tasks[1].error = "none"
  /\ tasks[1].log = <<>>

\* closeDatabase has finished in slot t and its CHECKPOINT had failed.
closedUnflushed(t) ==
  /\ closeFinished(t)
  /\ "checkpoint" \in tasks[t].failedCalls

-----------------------------------------------------------------------------
(* Connections and failures on the write path *)

\* The connections that were opened and on which close() was not yet called.
openConnections == Cardinality({t \in Slots : tasks[t].conn = "open"})

\* C13: every connection an operation opened has had its close() called
\* before the operation settles, exactly once and after every other call on
\* that connection, whichever of its calls failed; the same holds for the
\* connection of the schema creation; and when no operation is in flight no
\* connection is open.
C13_ConnectionsReleased ==
  /\ \A t \in Slots :
       LET task == tasks[t]
           closes == callsOf(task.log, "connClose")
       IN /\ ~InFlight(task) => task.conn # "open"
          /\ (task.conn = "open") <=>
               (InFlight(task) /\ task.pc \notin {"connect", "terminate"})
          /\ (task.pc = "done" /\ task.log # <<>>
                /\ "connect" \notin task.failedCalls) =>
               /\ task.conn = "closed"
               /\ Cardinality(closes) = 1
               /\ \A i \in 1..Len(task.log), j \in closes :
                    task.log[i] \notin {"connClose", "terminate"} => i < j
  /\ (boot.schemaLog # <<>> /\ boot.failed # "schemaConnect") =>
       /\ boot.schemaLog[Len(boot.schemaLog)] = "schemaClose"
       /\ Cardinality(callsOf(boot.schemaLog, "schemaClose")) = 1
  /\ (\A t \in Slots : ~InFlight(tasks[t])) => openConnections = 0

C13_Witness ==
  /\ tasks[1].op = "toggleTodoItem"
  /\ tasks[1].pc = "done"
  /\ tasks[1].failedCalls = {"prepare"}
  /\ tasks[1].log = <<"connect", "prepare", "connClose">>
  /\ tasks[1].conn = "closed"
  /\ openConnections = 0

\* The mutating statement of task failed: stmt.query(...) of addTodoItem and
\* toggleTodoItem, the DELETE of clearTodoItems and clearCompletedTodoItems.
statementFailed(task) ==
  /\ task.op \in Mutations
  /\ task.failedCalls \cap {"execute", "delete"} # {}

\* C14: when the mutating statement of addTodoItem, toggleTodoItem,
\* clearTodoItems or clearCompletedTodoItems fails, the operation issues no
\* CHECKPOINT, its next and last call is the close of its connection, and it
\* settles with an error.
C14_FailedStatementNoCheckpoint ==
  \A t \in Slots :
    statementFailed(tasks[t]) =>
      LET task == tasks[t] IN
      /\ callsOf(task.log, "checkpoint") = {}
      /\ task.error # "none"
      /\ IF InFlight(task)
           THEN task.pc = "connClose"
                /\ task.log[Len(task.log)] \in {"execute", "delete"}
           ELSE /\ task.conn = "closed"
                /\ task.log[Len(task.log)] = "connClose"
                /\ task.log[Len(task.log) - 1] \in {"execute", "delete"}

C14_Witness ==
  /\ tasks[1].op = "clearTodoItems"
  /\ tasks[1].pc = "done"
  /\ tasks[1].failedCalls = {"delete"}
  /\ tasks[1].log = <<"connect", "delete", "connClose">>
  /\ tasks[1].error = "engine"
  /\ engine = "running"
  /\ mem.todos # {}

\* C15: the error a caller receives from a mutation in which an engine call
\* failed is a WriteError that names the operation and carries the engine's
\* error as its cause, never the engine's error itself.  (In the code the
\* mutations have no catch: error "engine" is the rejection of the engine
\* call, passed on as it is.)
C15_EngineErrorsWrapped ==
  \A t \in Slots :
    (tasks[t].pc = "done" /\ tasks[t].op \in Mutations
       /\ tasks[t].failedCalls # {}) =>
      /\ tasks[t].error = "WriteError"
      /\ tasks[t].error # "engine"

-----------------------------------------------------------------------------
(* What the store does to the records *)

\* A record without its timestamps.
facts(r) == [id |-> r.id, content |-> r.content, completed |-> r.completed]
factsOf(rows) == {facts(r) : r \in rows}

\* A state on which a caller that awaits its calls can start the next one.
readyForCall ==
  /\ dbState.db = "handle"
  /\ engine = "running"
  /\ \A t \in Slots : ~InFlight(tasks[t])

\* The world after the call op(content, todoId) has returned successfully.
afterCall(op, content, todoId) ==
  finish(startCall(World, 1, op, content, todoId), 1, {}, <<>>)

\* What a list must hold after the mutation op, given the records before it.
expectedAfter(op, content, todoId, before) ==
  CASE op = "addTodoItem" ->
         {factsOf(before) \cup {[id |-> i, content |-> content,
                                 completed |-> FALSE]} :
            i \in (1..(MaxSeq + 2)) \ {r.id : r \in before}}
    [] op = "toggleTodoItem" ->
         {{IF f.id = todoId THEN [f EXCEPT !.completed = ~f.completed] ELSE f :
             f \in factsOf(before)}}
    [] op = "clearTodoItems" -> {{}}
    [] op = "clearCompletedTodoItems" ->
         {{f \in factsOf(before) : ~f.completed}}

\* C16: read-after-write.  From every state on which a call can start, for
\* every mutation and argument: once the mutation has returned successfully,
\* a getTodoItems started after it returns the records that were there
\* before with the mutation applied: one more record with the given content
\* and completed = false, the one record's flag flipped, no records, or the
\* records that were not completed.
C16_ReadAfterWrite ==
  readyForCall =>
    \A op \in Mutations :
    \A content \in (IF op = "addTodoItem" THEN Contents ELSE {""}),
       todoId \in (IF op = "toggleTodoItem" THEN 1..MaxSeq ELSE {0}) :
      LET written == afterCall(op, content, todoId)
      IN /\ written.tasks[1].error = "none"
         /\ \A pick \in SelectOrders(written.mem) :
              LET get == getTodoItems(written, pick)
              IN /\ get.error = "none"
                 /\ Len(get.result) = Cardinality(rowsOf(get.result))
                 /\ factsOf(rowsOf(get.result))
                      \in expectedAfter(op, content, todoId, mem.todos)

C16_Witness ==
  /\ tasks[1].op = "getTodoItems"
  /\ tasks[1].pc = "done"
  /\ tasks[1].error = "none"
  /\ engine = "running"
  /\ rowsOf(tasks[1].result) = mem.todos
  /\ \E r \in rowsOf(tasks[1].result) : r.completed
  /\ \E r \in rowsOf(tasks[1].result) : ~r.completed

\* The step is the successful INSERT of the addTodoItem in slot t.
inserts(t) ==
  /\ tasks[t].op = "addTodoItem"
  /\ tasks[t].pc = "execute"
  /\ tasks'[t].pc = "stmtClose"

\* C17: the INSERT of an addTodoItem adds exactly one record: its id is the
\* next value of the sequence and the id of no record present, its content
\* is the text that was passed, whatever the text (empty, with quotes, with
\* a control character), its completed flag is false, and the records that
\* were there are still there unchanged.  No other call of an addTodoItem
\* changes the records, so an addTodoItem that returns successfully has
\* added exactly this one record.
C17_AddInsertsOneRecord ==
  [][\A t \in Slots :
       (tasks[t].op = "addTodoItem" /\ tasks'[t] # tasks[t]
          /\ InFlight(tasks[t])) =>
         IF inserts(t)
           THEN \E r \in mem'.todos :
                  /\ r \notin mem.todos
                  /\ mem'.todos = mem.todos \cup {r}
                  /\ Cardinality(mem'.todos) = Cardinality(mem.todos) + 1
                  /\ r.id = mem.seq
                  /\ \A old \in mem.todos : old.id # r.id
                  /\ r.content = tasks[t].content
                  /\ ~r.completed
           ELSE mem'.todos = mem.todos]_vars

C17_Witness ==
  /\ tasks[1].op = "addTodoItem"
  /\ tasks[1].content = QuotedText
  /\ tasks[1].pc = "done"
  /\ tasks[1].error = "none"
  /\ \E r \in mem.todos : r.content = QuotedText /\ ~r.completed
  /\ \E r \in mem.todos : r.content = "a\tb" /\ r.completed
  /\ Cardinality(mem.todos) = 2

\* C18: no stored record has empty content, because addTodoItem called with
\* empty content by any caller of the store fails and inserts nothing.
C18_NoEmptyContent ==
  /\ \A r \in mem.todos : r.content # ""
  /\ \A f \in DurableFiles : \A r \in disk[f].todos : r.content # ""
  /\ \A t \in Slots :
       (tasks[t].op = "addTodoItem" /\ tasks[t].content = ""
          /\ tasks[t].pc = "done") => tasks[t].error # "none"

\* The step stays within one session: the same worker before and after.
sameSession ==
  /\ engine = "running" /\ engine' = "running"
  /\ dbState.db = "handle" /\ dbState'.db = "handle"

idsOf(rows) == {r.id : r \in rows}

\* C19: within a session the sequence never goes back and every INSERT
\* takes its id from it and advances it, so the ids of the records inserted
\* in a session are pairwise distinct and strictly increasing in insertion
\* order; every id present is below the next value of the sequence, also
\* after clearTodoItems or clearCompletedTodoItems has deleted rows, so no
\* id is issued twice; and no step gives a record an id it did not have.
C19_IdsNeverReused ==
  [][/\ \A r \in mem.todos : r.id < mem.seq
     /\ \A r1, r2 \in mem.todos : r1.id = r2.id => r1 = r2
     /\ sameSession =>
          /\ mem'.seq >= mem.seq
          /\ \A t \in Slots :
               inserts(t) =>
                 /\ idsOf(mem'.todos) = idsOf(mem.todos) \cup {mem.seq}
                 /\ mem.seq \notin idsOf(mem.todos)
                 /\ mem'.seq > mem.seq
          /\ (\A t \in Slots : ~inserts(t)) =>
               /\ idsOf(mem'.todos) \subseteq idsOf(mem.todos)
               /\ mem'.seq = mem.seq]_vars

C19_Witness ==
  /\ tasks[1].op = "addTodoItem"
  /\ tasks[1].pc = "done"
  /\ tasks[1].error = "none"
  /\ engine = "running"
  /\ idsOf(mem.todos) = {2}
  /\ mem.seq = 3

(***************************************************************************)
(* Overlapping addTodoItem calls                                           *)
(***************************************************************************)

\* The addTodoItem calls whose INSERT has been executed by the engine.
inserted ==
  {t \in Slots : /\ tasks[t].op = "addTodoItem"
                 /\ callsOf(tasks[t].log, "execute") # {}
                 /\ "execute" \notin tasks[t].failedCalls}

\* C20: when addTodoItem calls overlap, the ids of the stored records never
\* collide, every executed INSERT adds exactly one record, under an id no
\* record had and leaving the others as they were, no other step of any
\* call adds, removes or changes a record, and the number of records equals
\* the number of ids handed out: no insert is lost or duplicated.
C20_OverlappingAddsKeepIdsApart ==
  [][/\ \A r1, r2 \in mem.todos : r1.id = r2.id => r1 = r2
     /\ Cardinality(mem.todos) = mem.seq - 1
     /\ \A t \in Slots :
          inserts(t) =>
            /\ mem.todos \subseteq mem'.todos
            /\ Cardinality(mem'.todos \ mem.todos) = 1
            /\ \A r \in mem'.todos \ mem.todos :
                 /\ r.id \notin idsOf(mem.todos)
                 /\ r.content = tasks[t].content
     /\ (engine = "running" /\ \A t \in Slots : ~inserts(t)) =>
          mem'.todos = mem.todos]_vars

\* Two addTodoItem calls in flight at once, both past their INSERT and
\* neither yet settled, with two records under different ids.
C20_Witness ==
  /\ inserted = {1, 2}
  /\ InFlight(tasks[1]) /\ InFlight(tasks[2])
  /\ Cardinality(mem.todos) = 2
  /\ idsOf(mem.todos) = {1, 2}

(***************************************************************************)
(* What getTodoItems returns                                               *)
(***************************************************************************)

\* The list a getTodoItems that has just returned handed to its caller.
listed == tasks[1].result

gotList ==
  /\ tasks[1].op = "getTodoItems"
  /\ tasks[1].pc = "done"
  /\ tasks[1].error = "none"

\* C21: when the records of a returned list were created at pairwise
\* distinct timestamps, the list is in strictly reverse chronological order
\* of created_at, which is the reverse of the order of the addTodoItem
\* calls: every record stands before the records added before it.
C21_NewestFirst ==
  (gotList /\ \A i, j \in 1..Len(listed) :
                i # j => listed[i].created_at # listed[j].created_at)
    => \A i, j \in 1..Len(listed) :
         i < j => /\ listed[i].created_at > listed[j].created_at
                  /\ listed[i].id > listed[j].id

\* A list of two records added at different times.
C21_Witness ==
  /\ gotList
  /\ Len(listed) = 2
  /\ listed[1].created_at > listed[2].created_at
  /\ listed[1].id > listed[2].id

\* C22: a list that getTodoItems has returned holds every stored record
\* exactly once and nothing else, and on an empty table getTodoItems, its
\* engine calls answered, returns the empty list without an error.
C22_ListIsTheTable ==
  /\ gotList =>
       /\ rowsOf(listed) = mem.todos
       /\ Len(listed) = Cardinality(mem.todos)
  /\ (readyForCall /\ mem.todos = {}) =>
       /\ SelectOrders(mem) = {<<>>}
       /\ getTodoItems(World, <<>>).error = "none"
       /\ getTodoItems(World, <<>>).result = <<>>

\* A list taken of a table that records were added to and cleared from.
C22_Witness ==
  /\ gotList
  /\ listed = <<>>
  /\ mem.todos = {}
  /\ mem.seq > 1
  /\ engine = "running"

(***************************************************************************)
(* toggleTodoItem                                                          *)
(***************************************************************************)

\* The world after the call op(content, todoId), started on w, has
\* returned successfully.
thenCall(w, op, content, todoId) ==
  finish(startCall(w, 1, op, content, todoId), 1, {}, <<>>)

\* The completed flag of the record todoId in the world w.
completedIn(w, todoId) ==
  {r.completed : r \in {q \in w.mem.todos : q.id = todoId}}

\* The records of w other than todoId.
othersIn(w, todoId) == {r \in w.mem.todos : r.id # todoId}

\* C23: on every state on which a call can start and for every id of a
\* stored record, one toggleTodoItem(id) flips that record's completed flag
\* and a second one, with no mutation in between, restores it; the other
\* records and the record's id and content stay as they were.
C23_ToggleTwiceRestores ==
  readyForCall =>
    \A todoId \in idsOf(mem.todos) :
      LET once == thenCall(World, "toggleTodoItem", "", todoId)
          twice == thenCall(once, "toggleTodoItem", "", todoId)
      IN /\ once.tasks[1].error = "none"
         /\ twice.tasks[1].error = "none"
         /\ completedIn(once, todoId) = {~c : c \in completedIn(World, todoId)}
         /\ completedIn(twice, todoId) = completedIn(World, todoId)
         /\ Cardinality(completedIn(World, todoId)) = 1
         /\ othersIn(once, todoId) = othersIn(World, todoId)
         /\ othersIn(twice, todoId) = othersIn(World, todoId)
         /\ factsOf(twice.mem.todos) = factsOf(mem.todos)

\* A record that was completed and has been toggled back by a second
\* toggleTodoItem, next to a record that stayed completed.
C23_Witness ==
  /\ tasks[1].op = "toggleTodoItem"
  /\ tasks[1].pc = "done"
  /\ tasks[1].error = "none"
  /\ engine = "running"
  /\ completedIn(World, tasks[1].todoId) = {FALSE}
  /\ \E r \in mem.todos : r.id = tasks[1].todoId
  /\ \E r \in mem.todos : r.completed

\* The step is the successful UPDATE of the toggleTodoItem in slot t.
toggles(t) ==
  /\ tasks[t].op = "toggleTodoItem"
  /\ tasks[t].pc = "execute"
  /\ tasks'[t].pc = "stmtClose"

\* C24 as stated: each toggleTodoItem(id) on an existing id leaves the
\* record with an updated_at strictly greater than the one it had.
C24_UpdatedAtStrictlyIncreases ==
  [][\A t \in Slots :
       toggles(t) =>
         \A r \in mem.todos :
           r.id = tasks[t].todoId =>
             \E q \in mem'.todos : q.id = r.id /\ q.updated_at > r.updated_at]_vars

\* C25: on every state on which a call can start, toggleTodoItem(id) with
\* an id that no stored record has returns without an error and leaves the
\* table, and so every list getTodoItems can return, as it was.
C25_ToggleMissingIsNoop ==
  readyForCall =>
    \A todoId \in (0..(MaxSeq + 1)) \ idsOf(mem.todos) :
      LET after == thenCall(World, "toggleTodoItem", "", todoId)
      IN /\ after.tasks[1].error = "none"
         /\ after.tasks[1].pc = "done"
         /\ after.mem = mem
         /\ \A pick \in SelectOrders(mem) :
              /\ getTodoItems(after, pick).error = "none"
              /\ getTodoItems(after, pick).result = pick

\* A toggleTodoItem that returned for an id whose record had been deleted,
\* on a table that holds another record.
C25_Witness ==
  /\ tasks[1].op = "toggleTodoItem"
  /\ tasks[1].pc = "done"
  /\ tasks[1].error = "none"
  /\ engine = "running"
  /\ tasks[1].todoId \notin idsOf(mem.todos)
  /\ tasks[1].todoId < mem.seq
  /\ mem.todos # {}

(***************************************************************************)
(* clearCompletedTodoItems and clearTodoItems                              *)
(***************************************************************************)

\* C26: on every state on which a call can start, with N stored records of
\* which M are completed, clearCompletedTodoItems returns M, and the list of
\* a following getTodoItems has N - M entries, none of them completed, and
\* holds exactly the records that were not completed, unchanged.
C26_ClearCompletedCounts ==
  readyForCall =>
    LET after == thenCall(World, "clearCompletedTodoItems", "", 0)
        N == Cardinality(mem.todos)
        M == Cardinality({r \in mem.todos : r.completed})
    IN /\ after.tasks[1].error = "none"
       /\ after.tasks[1].count = M
       /\ \A pick \in SelectOrders(after.mem) :
            LET get == getTodoItems(after, pick)
            IN /\ get.error = "none"
               /\ Len(get.result) = N - M
               /\ \A i \in 1..Len(get.result) : ~get.result[i].completed
               /\ rowsOf(get.result) = {r \in mem.todos : ~r.completed}

\* A clearCompletedTodoItems that returned 1 and left the one record that
\* was not completed.
C26_Witness ==
  /\ tasks[1].op = "clearCompletedTodoItems"
  /\ tasks[1].pc = "done"
  /\ tasks[1].error = "none"
  /\ tasks[1].count = 1
  /\ engine = "running"
  /\ Cardinality(mem.todos) = 1
  /\ \A r \in mem.todos : ~r.completed

\* C27: on every state on which a call can start, whatever records it
\* holds, a clearTodoItems that returns leaves the table without a record
\* and the following getTodoItems returns the empty list.
C27_ClearEmptiesTheTable ==
  readyForCall =>
    LET after == thenCall(World, "clearTodoItems", "", 0)
    IN /\ after.tasks[1].error = "none"
       /\ after.mem.todos = {}
       /\ SelectOrders(after.mem) = {<<>>}
       /\ getTodoItems(after, <<>>).error = "none"
       /\ getTodoItems(after, <<>>).result = <<>>

\* A clearTodoItems that returned on a durable database to which two
\* records had been added: neither the engine nor the file holds a record.
C27_Witness ==
  /\ tasks[1].op = "clearTodoItems"
  /\ tasks[1].pc = "done"
  /\ tasks[1].error = "none"
  /\ engine = "running"
  /\ mem.todos = {}
  /\ mem.seq = 3
  /\ dbOpen \in DurableFiles
  /\ disk[dbOpen].todos = {}

(***************************************************************************)
(* The capability probe, the shutdown order and the schema across sessions *)
(***************************************************************************)

\* C28 as stated: isOpfsSupported never throws; on every host the probe
\* that a bootstrap ran returned a boolean.
C28_ProbeNeverThrows ==
  boot.outcome # "none" => boot.probe \in {"true", "false"}

\* The engine calls of a closeDatabase that runs to its end, in order.
CloseCalls == <<"connect", "checkpoint", "connClose", "terminate">>

\* C29: closeDatabase issues its calls in one order: connect, the final
\* CHECKPOINT, the close of that connection, terminate.  terminate() is
\* called only after the CHECKPOINT was attempted and its connection
\* closed; the handle becomes null only in the step in which terminate()
\* has succeeded, so it is never null while the worker runs.
C29_CloseOrder ==
  [][/\ dbState.db = "null" => engine # "running"
     /\ \A t \in Slots :
          tasks[t].op = "closeDatabase" =>
            /\ Len(tasks[t].log) <= Len(CloseCalls)
            /\ tasks[t].log = SubSeq(CloseCalls, 1, Len(tasks[t].log))
            /\ InFlight(tasks[t]) => dbState.db = "handle"
            /\ (tasks[t].pc = "terminate" /\ tasks'[t].pc = "done") =>
                 /\ tasks[t].log = <<"connect", "checkpoint", "connClose">>
                 /\ tasks[t].conn = "closed"
                 /\ tasks'[t].error = "none" =>
                      (engine' = "terminated" /\ dbState'.db = "null")
     /\ (dbState.db = "handle" /\ dbState'.db = "null" /\ engine' # "none") =>
          /\ engine = "running"
          /\ engine' = "terminated"
          /\ \E t \in Slots : /\ tasks[t].op = "closeDatabase"
                               /\ tasks[t].pc = "terminate"
                               /\ tasks'[t].pc = "done"]_vars

\* A closeDatabase that ran to its end on a durable database holding a
\* record: flushed, connection closed, worker terminated, handle null.
C29_Witness ==
  /\ tasks[1].op = "closeDatabase"
  /\ tasks[1].pc = "done"
  /\ tasks[1].error = "none"
  /\ tasks[1].log = CloseCalls
  /\ tasks[1].failedCalls = {}
  /\ tasks[1].conn = "closed"
  /\ engine = "terminated"
  /\ dbState.db = "null"
  /\ disk[DefaultPath].todos # {}

\* The bootstrap that has just returned opened a durable file that already
\* held the todos table and the id sequence.
reopenedMigratedFile ==
  /\ boot.outcome = "returned"
  /\ dbOpen \in DurableFiles
  /\ disk[dbOpen].hasTable
  /\ disk[dbOpen].hasSeq

\* C30: a bootstrap on a durable file that already holds the table and the
\* sequence leaves the file as it was and comes up with exactly the file's
\* records and the file's sequence value, and the next addTodoItem adds a
\* record whose id is that value, greater than the id of every record of
\* the file, beside the records of the file.
C30_SchemaIdempotent ==
  reopenedMigratedFile =>
    /\ mem = disk[dbOpen]
    /\ \A r \in mem.todos : r.id < mem.seq
    /\ LET after == thenCall(World, "addTodoItem", "x", 0)
           new == after.mem.todos \ disk[dbOpen].todos
       IN /\ after.tasks[1].error = "none"
          /\ disk[dbOpen].todos \subseteq after.mem.todos
          /\ Cardinality(new) = 1
          /\ \A r \in new :
               /\ r.id = disk[dbOpen].seq
               /\ \A q \in disk[dbOpen].todos : q.id < r.id

\* A bootstrap that reopened a file holding one record and a sequence that
\* has handed out two ids.
C30_Witness ==
  /\ reopenedMigratedFile
  /\ disk[dbOpen].seq = 3
  /\ Cardinality(disk[dbOpen].todos) = 1
  /\ mem.seq = 3
  /\ mem.todos = disk[dbOpen].todos

(***************************************************************************)
(* What the record store leaves alone                                      *)
(***************************************************************************)

\* The step is one of the record store call in slot t: its start or the
\* answer to one of its engine calls.
recordStoreStep(t) ==
  /\ tasks'[t] # tasks[t]
  /\ tasks'[t].op \in RecordStoreOps
  /\ \/ tasks[t].op = tasks'[t].op /\ InFlight(tasks[t])
     \/ callStarts(t)

\* C31: no step of a record store operation, answered or failed, changes
\* the DatabaseState.  The handle goes to null only when a closeDatabase
\* has terminated the worker (or the page is gone), and isOpfsSupported
\* changes only when a bootstrap returns or the page is gone: it keeps its
\* value after failed mutations and after closeDatabase.
C31_RecordStoreKeepsState ==
  [][/\ \A t \in Slots : recordStoreStep(t) => dbState' = dbState
     /\ (dbState.db = "handle" /\ dbState'.db = "null") =>
          \/ engine' = "none"
          \/ \E t \in Slots : /\ tasks[t].op = "closeDatabase"
                               /\ tasks[t].pc = "terminate"
                               /\ tasks'[t].pc = "done"
                               /\ tasks'[t].error = "none"
     /\ dbState'.isOpfsSupported # dbState.isOpfsSupported =>
          \/ engine' = "none"
          \/ boot'.outcome = "returned" /\ dbState.db = "null"]_vars

\* A mutation that failed on a durable database: the handle and the flag
\* are as the bootstrap returned them.
C31_Witness ==
  /\ tasks[1].op \in Mutations
  /\ tasks[1].pc = "done"
  /\ tasks[1].error = "engine"
  /\ "execute" \in tasks[1].failedCalls
  /\ dbState = [db |-> "handle", isOpfsSupported |-> TRUE]
  /\ engine = "running"

\* C32: the UPDATE of toggleTodoItem(id) leaves as many records as there
\* were, changes nothing in the records with another id, and in the record
\* with that id leaves id, content and created_at as they were; and no step
\* of any operation changes the created_at or the content of a record that
\* is still there after it.
C32_ToggleTouchesTwoFields ==
  [][/\ \A t \in Slots :
          toggles(t) =>
            /\ Cardinality(mem'.todos) = Cardinality(mem.todos)
            /\ \A r \in mem.todos :
                 IF r.id = tasks[t].todoId
                   THEN [r EXCEPT !.completed = ~r.completed,
                                  !.updated_at = now] \in mem'.todos
                   ELSE r \in mem'.todos
     /\ \A r \in mem.todos, q \in mem'.todos :
          q.id = r.id => /\ q.created_at = r.created_at
                         /\ q.content = r.content]_vars

\* A toggleTodoItem that returned after the clock had moved on: its record
\* is completed with updated_at past created_at, beside an untouched one.
C32_Witness ==
  /\ tasks[1].op = "toggleTodoItem"
  /\ tasks[1].pc = "done"
  /\ tasks[1].error = "none"
  /\ \E r \in mem.todos : /\ r.id = tasks[1].todoId
                           /\ r.completed
                           /\ r.updated_at > r.created_at
  /\ \E r \in mem.todos : /\ r.id # tasks[1].todoId
                           /\ ~r.completed
                           /\ r.updated_at = r.created_at

\* C33: every record in the engine and in the durable file has
\* created_at <= updated_at.
C33_CreatedBeforeUpdated ==
  /\ \A r \in mem.todos : r.created_at <= r.updated_at
  /\ \A f \in DurableFiles :
       \A r \in disk[f].todos : r.created_at <= r.updated_at

\* A record toggled twice, the second time after the clock had moved on.
C33_Witness ==
  /\ tasks[1].op = "toggleTodoItem"
  /\ tasks[1].pc = "done"
  /\ tasks[1].error = "none"
  /\ \E r \in mem.todos : /\ r.id = tasks[1].todoId
                           /\ ~r.completed
                           /\ r.created_at < r.updated_at
  /\ \E r \in mem.todos : r.created_at = r.updated_at

(***************************************************************************)
(* Retries in the bootstrap                                                *)
(***************************************************************************)

\* C35 as stated: a bootstrap opens a database a second time only when
\* the first attempt was the durable one and failed, the second attempt is
\* the in-memory open, and a failed in-memory open is never retried.
C35_OnlyDurableOpenRetried ==
  /\ Len(boot.opens) <= 2
  /\ Len(boot.opens) = 2 =>
       /\ startsWithOpfs(boot.opens[1].path)
       /\ ~boot.opens[1].ok
       /\ boot.opens[2].path = MemoryPath
  /\ \A i \in 1..Len(boot.opens) :
       (boot.opens[i].path = MemoryPath /\ ~boot.opens[i].ok) =>
         i = Len(boot.opens)

(***************************************************************************)
(* Calls that overlap, and mutations that fail half-way                    *)
(***************************************************************************)

\* The step is the successful DELETE of the clearCompletedTodoItems in
\* slot t.
deletesCompleted(t) ==
  /\ tasks[t].op = "clearCompletedTodoItems"
  /\ tasks[t].pc = "delete"
  /\ tasks'[t].pc = "checkpoint"

\* C36 as stated: the count clearCompletedTodoItems returns is the number
\* of records its DELETE removes, whatever other calls run between its
\* COUNT and its DELETE.
C36_CountIsRowsDeleted ==
  [][\A t \in Slots :
       deletesCompleted(t) =>
         Cardinality(mem.todos) - Cardinality(mem'.todos) = tasks[t].count]_vars

\* The step issues an engine call of the record store call in slot t after
\* an await.  db.connect() is left out: it is issued in the same synchronous
\* run as the guard on dbState.db, so only its answer can come later.
issuesCall(t) ==
  /\ tasks[t].op \in RecordStoreOps
  /\ InFlight(tasks[t])
  /\ tasks[t].pc # "connect"
  /\ tasks'[t].log = Append(tasks[t].log, tasks[t].pc)

C38_FailedMutationChangedNothing ==
  readyForCall =>
    \A op \in Mutations :
    \A content \in (IF op = "addTodoItem" THEN Contents ELSE {""}),
       todoId \in (IF op = "toggleTodoItem" THEN 1..MaxSeq ELSE {0}) :
      \A end \in runs(startCall(World, 1, op, content, todoId), 1) :
        (end.tasks[1].pc = "done" /\ end.tasks[1].error # "none") =>
          end.mem.todos = mem.todos

\* C34 as stated: whatever the user does, no addTodoItem, toggleTodoItem,
\* clearTodoItems or clearCompletedTodoItems call starts while another of
\* them is still in flight.
C34_OneMutationAtATime ==
  [][\A t \in Slots :
       (callStarts(t) /\ tasks'[t].op \in Mutations) =>
         \A u \in Slots \ {t} :
           ~(tasks[u].op \in Mutations /\ InFlight(tasks[u]))]_vars
====
